---- MODULE Spec2Model ----
(***************************************************************************)
(* voxutil: the dense Volume with its reference-counted palette            *)
(* (src/voxutil/volume.py) and the .vox chunk codec                        *)
(* (src/voxutil/voxfile.py), modelled as state machines.                   *)
(*                                                                         *)
(* Python values are modelled as follows.  An optional value is a tuple:   *)
(* None is <<>>.  A colour is its component tuple <<r, g, b, a>>.  A call  *)
(* that raises is a result record whose err field names the exception;     *)
(* err = "" means the call returned.                                       *)
(***************************************************************************)
EXTENDS Integers, Sequences, FiniteSets, TLC

VARIABLES
    size,             \* Volume.size
    voxels,           \* Volume.voxels, the dense list of optional colours
    color_count_map,  \* Palette.color_count_map, in dict (insertion) order
    last,             \* the last call made on the Volume and how it ended
    steps,            \* number of calls made so far
    disk,             \* the content of the file at path, None while there is none
    tree,             \* the VoxFile object the program holds, or None
    io,               \* the last call made on the file and how it ended
    cursor,           \* the byte_iter argument of MainChunk.read
    locals,           \* the locals of MainChunk.read (pack, models, ...)
    pc,               \* the position of MainChunk.read
    raised,           \* the exception MainChunk.read raised
    trace,            \* the cursor offsets around each loop iteration
    encoded,          \* the last bytes(chunk) of a decoded chunk
    reader,           \* the byte_iter argument of Bytes.read, Int32.read, ...
    got               \* the last call made with it and how it ended

volumeVars == <<size, voxels, color_count_map, last, steps>>

fileVars == <<disk, tree, io>>

mainVars == <<cursor, locals, pc, raised, trace, encoded>>

readVars == <<reader, got>>

vars == <<volumeVars, fileVars, mainVars, readVars>>

-----------------------------------------------------------------------------
(* Bounds of the model *)

\* calls made on one Volume
MaxSteps == 3

-----------------------------------------------------------------------------
(* Program constants *)

\* Palette.use_color: "if len(self.color_count_map) >= 256"
PaletteCapacity == 256

\* Volume.to_voxfile: "color_list = [(0, 0, 0, 255) for _ in range(256)]"
PaletteSlots == 256

\* Volume.to_voxfile: "voxfile.VoxFile(150, ...)"
FileVersion == 150

\* Color.__init__: "a: int = 255"
DefaultAlpha == 255
PaletteColors == 255
IndexMapSize == 256

None == <<>>

NoError == ""
ValueErrorOutOfBounds == "ValueError: Index out of bounds"
ValueErrorPaletteFull == "ValueError: Palette is full."
ValueErrorNotInPalette == "ValueError: Color is not in palette."
TypeErrorUnhashable == "TypeError: unhashable type: 'Color'"
IndexErrorList == "IndexError: list index out of range"

-----------------------------------------------------------------------------
(* Colour arguments *)

\* Color(r, g, b): the class defines __eq__ and no __hash__, so Python sets
\* its __hash__ to None: an instance cannot be a dict key.
Color(r, g, b) == [rgba |-> <<r, g, b, DefaultAlpha>>, hashable |-> FALSE]

\* A Color of a subclass that defines __hash__ over (r, g, b, a), the only
\* kind of colour object a dict accepts; it compares by Color.__eq__.
HashableColor(r, g, b) == [rgba |-> <<r, g, b, DefaultAlpha>>, hashable |-> TRUE]

\* the argument None of Volume.set
NoColor == [rgba |-> None, hashable |-> TRUE]

-----------------------------------------------------------------------------
(* Palette *)

\* position of a key in the dict, 0 when absent (Color.__eq__: componentwise)
KeyIndex(map, rgba) ==
    IF \E k \in 1..Len(map) : map[k].color = rgba
    THEN CHOOSE k \in 1..Len(map) : map[k].color = rgba
    ELSE 0

\* Palette.use_color
use_color(map, color) ==
    IF ~color.hashable
    THEN [err |-> TypeErrorUnhashable, map |-> map]
    ELSE IF KeyIndex(map, color.rgba) > 0
    THEN [err |-> NoError,
          map |-> [map EXCEPT ![KeyIndex(map, color.rgba)].count = @ + 1]]
    ELSE IF Len(map) >= PaletteCapacity
    THEN [err |-> ValueErrorPaletteFull, map |-> map]
    ELSE [err |-> NoError,
          map |-> Append(map, [color |-> color.rgba, count |-> 1])]

\* del self.color_count_map[color]
DictDelete(map, k) ==
    [j \in 1..(Len(map) - 1) |-> IF j < k THEN map[j] ELSE map[j + 1]]

\* an unuse_color that decrements the count and keeps the entry at zero
unuse_colorKeepsEntry(map, rgba) ==
    IF KeyIndex(map, rgba) = 0
    THEN [err |-> ValueErrorNotInPalette, map |-> map]
    ELSE [err |-> NoError, map |-> [map EXCEPT ![KeyIndex(map, rgba)].count = @ - 1]]

\* Palette.unuse_color, on a colour object read back from the voxel list
unuse_color(map, rgba) ==
    IF KeyIndex(map, rgba) = 0
    THEN [err |-> ValueErrorNotInPalette, map |-> map]
    ELSE LET k == KeyIndex(map, rgba) IN
         IF map[k].count - 1 = 0
         THEN [err |-> NoError, map |-> DictDelete(map, k)]
         ELSE [err |-> NoError, map |-> [map EXCEPT ![k].count = @ - 1]]

-----------------------------------------------------------------------------
(* Volume *)

\* Volume.__init__
Volume_init(sz) ==
    [size |-> sz,
     voxels |-> [k \in 1..(sz[1] * sz[2] * sz[3]) |-> None],
     map |-> <<>>]

\* the bounds loop of Volume.set
OutOfBoundsOffByOne(sz, index) ==
    \E i \in 1..3 : index[i] < 0 \/ index[i] > sz[i]

OutOfBounds(sz, index) ==
    \E i \in 1..3 : index[i] < 0 \/ index[i] >= sz[i]

\* an index whose y stride is the y extent instead of the x extent
CellIndexWrongStride(sz, index) ==
    index[1] + index[2] * sz[2] + index[3] * sz[1] * sz[2]

\* index[0] + index[1] * size[0] + index[2] * size[0] * size[1]
CellIndex(sz, index) ==
    index[1] + index[2] * sz[1] + index[3] * sz[1] * sz[2]

\* Python list subscript: the 1-based position of list[i], 0 for IndexError
ListSlot(n, i) ==
    IF 0 <= i /\ i < n THEN i + 1
    ELSE IF -n <= i /\ i < 0 THEN n + i + 1
    ELSE 0

\* Volume.get
Volume_get(sz, vox, index) ==
    LET slot == ListSlot(Len(vox), CellIndex(sz, index)) IN
    IF slot = 0
    THEN [err |-> IndexErrorList, value |-> None]
    ELSE [err |-> NoError, value |-> vox[slot]]

\* Volume.set: bounds loop, use_color(color), unuse_color(prev), store.
\* A raise leaves whatever was mutated before it.
Volume_set(sz, vox, map, index, color) ==
    IF OutOfBounds(sz, index)
    THEN [err |-> ValueErrorOutOfBounds, voxels |-> vox, map |-> map]
    ELSE
    LET used == IF color.rgba # None
                THEN use_color(map, color)
                ELSE [err |-> NoError, map |-> map]
    IN
    IF used.err # NoError
    THEN [err |-> used.err, voxels |-> vox, map |-> map]
    ELSE
    LET prev == Volume_get(sz, vox, index) IN
    IF prev.err # NoError
    THEN [err |-> prev.err, voxels |-> vox, map |-> used.map]
    ELSE
    LET unused == IF prev.value # None
                  THEN unuse_color(used.map, prev.value)
                  ELSE [err |-> NoError, map |-> used.map]
    IN
    IF unused.err # NoError
    THEN [err |-> unused.err, voxels |-> vox, map |-> used.map]
    ELSE [err |-> NoError,
          voxels |-> [vox EXCEPT
                         ![ListSlot(Len(vox), CellIndex(sz, index))] = color.rgba],
          map |-> unused.map]

-----------------------------------------------------------------------------
(* The record tree of voxfile.py *)

\* the class attribute id of each chunk class, as its four bytes
MAIN_ID == <<77, 65, 73, 78>>
PACK_ID == <<80, 65, 67, 75>>
SIZE_ID == <<83, 73, 90, 69>>
XYZI_ID == <<88, 89, 90, 73>>
RGBA_ID == <<82, 71, 66, 65>>
NTRN_ID == <<110, 84, 82, 78>>
NGRP_ID == <<110, 71, 82, 80>>
NSHP_ID == <<110, 83, 72, 80>>
MATL_ID == <<77, 65, 84, 76>>
LAYR_ID == <<76, 65, 89, 82>>
ROBJ_ID == <<114, 79, 66, 74>>
RCAM_ID == <<114, 67, 65, 77>>
NOTE_ID == <<78, 79, 84, 69>>
IMAP_ID == <<73, 77, 65, 80>>

\* PackChunk.__init__
PackChunk(num_models) == [id |-> PACK_ID, num_models |-> num_models]

\* TransformChunk.__init__
TransformChunk(node_id, attributes, child_node_id, layer_id, frames) ==
    [id |-> NTRN_ID, node_id |-> node_id, attributes |-> attributes,
     child_node_id |-> child_node_id, layer_id |-> layer_id, frames |-> frames]

\* GroupChunk.__init__
GroupChunk(node_id, attributes, child_node_ids) ==
    [id |-> NGRP_ID, node_id |-> node_id, attributes |-> attributes,
     child_node_ids |-> child_node_ids]

\* ShapeChunk.__init__
ShapeChunk(node_id, attributes, models) ==
    [id |-> NSHP_ID, node_id |-> node_id, attributes |-> attributes,
     models |-> models]

\* MaterialChunk.__init__
MaterialChunk(material_id, properties) ==
    [id |-> MATL_ID, material_id |-> material_id, properties |-> properties]

\* LayerChunk.__init__
LayerChunk(layer_id, attribute) ==
    [id |-> LAYR_ID, layer_id |-> layer_id, attribute |-> attribute]

\* RenderObjectChunk.__init__
RenderObjectChunk(attributes) == [id |-> ROBJ_ID, attributes |-> attributes]

\* RenderCameraChunk.__init__
RenderCameraChunk(camera_id, attribute) ==
    [id |-> RCAM_ID, camera_id |-> camera_id, attribute |-> attribute]

\* PaletteNoteChunk.__init__
PaletteNoteChunk(color_names) == [id |-> NOTE_ID, color_names |-> color_names]

\* IndexMapChunk.__init__
IndexMapChunk(palette_indices) ==
    [id |-> IMAP_ID, palette_indices |-> palette_indices]


\* SizeChunk.__init__
SizeChunk(sz) == [id |-> SIZE_ID, size |-> sz]

\* XYZIChunk.__init__
XYZIChunk(xyzis) == [id |-> XYZI_ID, voxels |-> xyzis]

\* PaletteChunk.__init__
PaletteChunk(palette) == [id |-> RGBA_ID, palette |-> palette]

\* MainChunk.__init__; an optional member is None or <<chunk>>
MainChunk(pack, models, palette, scene_graph, materials, layers, render_objects, render_cameras, palette_note, index_map) ==
    [pack |-> pack, models |-> models, palette |-> palette,
     scene_graph |-> scene_graph, materials |-> materials, layers |-> layers,
     render_objects |-> render_objects, render_cameras |-> render_cameras,
     palette_note |-> palette_note, index_map |-> index_map]

\* VoxFile.__init__
VoxFile(version, main) == [version |-> version, main |-> main]

-----------------------------------------------------------------------------
(* Volume.to_voxfile *)

\* color_list after the enumerate loop: slot i + 1 (0-based) takes the i-th key
ColorListShifted(map) ==
    [s \in 1..PaletteSlots |->
        IF s <= Len(map) THEN map[s].color ELSE <<0, 0, 0, 255>>]

ColorList(map) ==
    [s \in 1..PaletteSlots |->
        IF 2 <= s /\ s - 1 <= Len(map) THEN map[s - 1].color
        ELSE <<0, 0, 0, 255>>]

\* the coordinates in the order of the loops: for x, for y, for z
LoopOrderZOuter(sz) ==
    [k \in 1..(sz[1] * sz[2] * sz[3]) |->
        <<(k - 1) % sz[1],
          ((k - 1) \div sz[1]) % sz[2],
          (k - 1) \div (sz[1] * sz[2])>>]

LoopOrder(sz) ==
    [k \in 1..(sz[1] * sz[2] * sz[3]) |->
        <<(k - 1) \div (sz[2] * sz[3]),
          ((k - 1) \div sz[3]) % sz[2],
          (k - 1) % sz[3]>>]

\* xyzis: one (x, y, z, color_to_index[color]) per coordinate holding a colour
Xyzis(sz, vox, map) ==
    LET order == LoopOrder(sz)
        colored == SelectSeq([k \in 1..Len(order) |-> k],
                             LAMBDA k : Volume_get(sz, vox, order[k]).value # None)
    IN  [j \in 1..Len(colored) |->
            <<order[colored[j]][1], order[colored[j]][2], order[colored[j]][3],
              KeyIndex(map, Volume_get(sz, vox, order[colored[j]]).value)>>]

\* Volume.to_voxfile; color_list[i + 1] raises IndexError for the 256th key
to_voxfile(sz, vox, map) ==
    IF Len(map) + 1 > PaletteSlots
    THEN [err |-> IndexErrorList, file |-> None]
    ELSE [err |-> NoError,
          file |-> <<VoxFile(FileVersion,
                       MainChunk(None,
                                 <<<<SizeChunk(sz), XYZIChunk(Xyzis(sz, vox, map))>>>>,
                                 <<PaletteChunk(ColorList(map))>>,
                                 <<>>, <<>>, <<>>, <<>>, <<>>, None, None))>>]

-----------------------------------------------------------------------------
(* The Volume as a state machine *)

\* sizes of the Volumes constructed empty
SmallSizes == {<<2, 2, 1>>, <<1, 2, 2>>}

\* a Volume with more cells than the palette has room for
BigSize == <<(PaletteCapacity \div 2) + 1, 2, 1>>

\* the Volume(BigSize) after set(cell i, HashableColor(i, 0, 0)) for i < k:
\* k cells hold k distinct colours, each counted once, in the order of the calls
Filled(k) ==
    [size |-> BigSize,
     voxels |-> [c \in 1..(BigSize[1] * BigSize[2] * BigSize[3]) |->
                    IF c <= k THEN HashableColor(c - 1, 0, 0).rgba ELSE None],
     map |-> [c \in 1..k |-> [color |-> HashableColor(c - 1, 0, 0).rgba, count |-> 1]]]

\* the Volumes a run starts from: new ones, and ones filled up to the ceiling
StartVolumes ==
    {Volume_init(sz) : sz \in SmallSizes}
        \cup {Filled(k) : k \in {PaletteCapacity - 1, PaletteCapacity}}

\* coordinates passed to set: the corner cells (for the big Volume the first
\* cell, whose colour no other cell holds, and the last, which is empty)
CoordInputs(sz) ==
    IF sz = BigSize
    THEN {<<0, 0, 0>>, <<sz[1] - 1, sz[2] - 1, sz[3] - 1>>}
    ELSE {<<x, y, z>> : x \in {0, sz[1] - 1}, y \in {0, sz[2] - 1}, z \in {0, sz[3] - 1}}

\* coordinates one step outside a face of the Volume
OutsideInputs(sz) ==
    IF sz = BigSize
    THEN {<<-1, 0, 0>>, <<0, 0, sz[3]>>}
    ELSE {<<-1, 0, 0>>, <<0, -1, 0>>, <<0, 0, -1>>,
          <<sz[1], 0, 0>>, <<0, sz[2], 0>>, <<0, 0, sz[3]>>}

\* colours passed to set: None, two hashable colours, and the Color of the tests
ColorInputs ==
    {NoColor, HashableColor(255, 0, 0), HashableColor(0, 255, 0), Color(255, 0, 0)}

\* the calls set(index, color) made on a Volume of the given size
SetInputs(sz) ==
    (CoordInputs(sz) \X ColorInputs)
        \cup (OutsideInputs(sz) \X (ColorInputs \ {HashableColor(0, 255, 0)}))

NoCall == [op |-> "new", index |-> <<>>, color |-> NoColor, err |-> NoError,
           file |-> None]

\* no Volume in use
IdleVolume ==
    /\ size = <<0, 0, 0>>
    /\ voxels = <<>>
    /\ color_count_map = <<>>
    /\ last = NoCall
    /\ steps = 0

NoFileCall == [op |-> "none", err |-> NoError, out |-> None]

\* no file in use
IdleFile ==
    /\ disk = None
    /\ tree = None
    /\ io = NoFileCall

\* no MainChunk.read in progress
IdleMain ==
    /\ cursor = None
    /\ locals = None
    /\ pc = "idle"
    /\ raised = NoError
    /\ trace = <<>>
    /\ encoded = None

NoRead == [op |-> "none", n |-> 0, err |-> NoError, before |-> <<>>]

\* no iterator in use
IdleRead ==
    /\ reader = None
    /\ got = NoRead

InitVolume ==
    /\ \E v \in StartVolumes :
          /\ size = v.size
          /\ voxels = v.voxels
          /\ color_count_map = v.map
    /\ last = NoCall
    /\ steps = 0
    /\ IdleFile
    /\ IdleMain
    /\ IdleRead

\* volume.set(index, color)
SetVoxel ==
    /\ steps < MaxSteps
    /\ \E call \in SetInputs(size) :
          LET r == Volume_set(size, voxels, color_count_map, call[1], call[2]) IN
          /\ voxels' = r.voxels
          /\ color_count_map' = r.map
          /\ last' = [op |-> "set", index |-> call[1], color |-> call[2],
                      err |-> r.err, file |-> None]
    /\ steps' = steps + 1
    /\ UNCHANGED <<size, fileVars, mainVars, readVars>>

\* volume.to_voxfile()
ToVoxfile ==
    /\ steps < MaxSteps
    /\ LET r == to_voxfile(size, voxels, color_count_map) IN
          last' = [op |-> "to_voxfile", index |-> <<>>, color |-> NoColor,
                   err |-> r.err, file |-> r.file]
    /\ steps' = steps + 1
    /\ UNCHANGED <<size, voxels, color_count_map, fileVars, mainVars, readVars>>

NextVolume == SetVoxel \/ ToVoxfile

SpecVolume == InitVolume /\ [][NextVolume]_vars

-----------------------------------------------------------------------------
(* Properties of the Volume *)

\* every component of the coordinate lies in [0, size component)
Inside(sz, index) == \A i \in 1..3 : 0 <= index[i] /\ index[i] < sz[i]

\* the colours held by at least one voxel
ColorsOf(vox) == {vox[c] : c \in 1..Len(vox)} \ {None}

\* the voxel list after writing v at an in-bounds coordinate
Written(sz, vox, index, v) == [vox EXCEPT ![CellIndex(sz, index) + 1] = v]

\* C3 (as claimed): with 256 distinct colours in use, a set with a colour not
\* in use fails and changes neither the voxels nor the colour-usage map, and a
\* set with an in-bounds coordinate and a colour in use succeeds.
PaletteCeiling ==
    [][(last'.op = "set" /\ Cardinality(ColorsOf(voxels)) = 256) =>
          /\ (last'.color.rgba # None /\ last'.color.rgba \notin ColorsOf(voxels)) =>
                /\ last'.err # NoError
                /\ voxels' = voxels
                /\ color_count_map' = color_count_map
          /\ (Inside(size, last'.index) /\ last'.color.rgba \in ColorsOf(voxels)) =>
                last'.err = NoError]_vars

\* C4: a set with a coordinate component < 0 or >= the size component fails,
\* and the voxels and the colour-usage map (keys, counts, order) are as before
\* the call, whatever the colour argument.
VolumeBounds ==
    [][(last'.op = "set" /\ ~Inside(size, last'.index)) =>
          /\ last'.err # NoError
          /\ voxels' = voxels
          /\ color_count_map' = color_count_map]_vars

\* C4 witness: a set outside a Volume that holds colours, with a colour
\* argument, was rejected
VolumeBoundsWitness ==
    /\ last.op = "set"
    /\ ~Inside(size, last.index)
    /\ last.color.rgba # None
    /\ last.err = ValueErrorOutOfBounds
    /\ ColorsOf(voxels) # {}

\* C5 (as claimed): a set with an in-bounds coordinate fails exactly when the
\* Volume that would result holds more than 256 distinct colours.
SetFailsOnlyOverCeiling ==
    [][(last'.op = "set" /\ Inside(size, last'.index)) =>
          (last'.err # NoError <=>
              Cardinality(ColorsOf(Written(size, voxels, last'.index,
                                           last'.color.rgba))) > 256)]_vars

\* the palette of the File the last conversion returned; position s is slot s - 1
Converted == last.op = "to_voxfile" /\ last.err = NoError
LastPalette == last.file[1].main.palette[1].palette
LastModels == last.file[1].main.models

\* slots 1.. of the palette follow the colour-usage map, the rest is opaque black
PaletteFollowsMap ==
    /\ Len(last.file[1].main.palette) = 1
    /\ Len(LastPalette) = 256
    /\ \A i \in 0..(Len(color_count_map) - 1) :
          LastPalette[(i + 1) + 1] = color_count_map[i + 1].color
    /\ \A s \in 1..255 :
          s > Len(color_count_map) => LastPalette[s + 1] = <<0, 0, 0, 255>>

\* C6 (as claimed): slot i + 1 is the i-th colour of the colour-usage map,
\* slot 0 is (0, 0, 0, 0), every other slot is (0, 0, 0, 255).
ConversionPaletteSlotZeroClear ==
    Converted => (PaletteFollowsMap /\ LastPalette[1] = <<0, 0, 0, 0>>)

\* C6 (amended): slot i + 1 is the i-th colour of the colour-usage map, and
\* every other slot, slot 0 included, is opaque black (0, 0, 0, 255).
ConversionPalette ==
    Converted => (PaletteFollowsMap /\ LastPalette[1] = <<0, 0, 0, 255>>)

\* C6 witness: a Volume holding at least two colours and an empty cell was
\* converted
ConversionPaletteWitness ==
    /\ Converted
    /\ Len(color_count_map) >= 2
    /\ \E c \in 1..Len(voxels) : voxels[c] = None

\* (x, y, z) of one entry before that of another: x first, then y, then z
Before(e, f) ==
    \/ e[1] < f[1]
    \/ e[1] = f[1] /\ e[2] < f[2]
    \/ e[1] = f[1] /\ e[2] = f[2] /\ e[3] < f[3]

\* C7: the File has one model, of the Volume's size; its voxel list has one
\* entry per coordinate holding a colour and none for an empty one, each with
\* the palette index of the coordinate's colour, in ascending x, then y, then z.
ConversionVoxelList ==
    Converted =>
        /\ Len(LastModels) = 1
        /\ LastModels[1][1].size = size
        /\ LET xyzis == LastModels[1][2].voxels IN
           /\ \A j \in 1..Len(xyzis) :
                 /\ Inside(size, <<xyzis[j][1], xyzis[j][2], xyzis[j][3]>>)
                 /\ xyzis[j][4] \in 1..255
                 /\ LastPalette[xyzis[j][4] + 1]
                       = voxels[CellIndex(size, xyzis[j]) + 1]
           /\ \A x \in 0..(size[1] - 1), y \in 0..(size[2] - 1), z \in 0..(size[3] - 1) :
                 Cardinality({j \in 1..Len(xyzis) :
                                 <<xyzis[j][1], xyzis[j][2], xyzis[j][3]>> = <<x, y, z>>})
                    = IF voxels[CellIndex(size, <<x, y, z>>) + 1] # None THEN 1 ELSE 0
           /\ \A j \in 1..(Len(xyzis) - 1) : Before(xyzis[j], xyzis[j + 1])

\* C7 witness: a converted Volume with coloured and empty cells, two of the
\* coloured ones differing in x and in a later axis
ConversionVoxelListWitness ==
    /\ Converted
    /\ \E c \in 1..Len(voxels) : voxels[c] = None
    /\ LET xyzis == LastModels[1][2].voxels IN
       \E j, k \in 1..Len(xyzis) :
          xyzis[j][1] < xyzis[k][1] /\ (xyzis[j][2] > xyzis[k][2] \/ xyzis[j][3] > xyzis[k][3])

-----------------------------------------------------------------------------
(* Bytes and integers.  A bytes object is the sequence of its byte values. *)

ValueErrorHeader == "ValueError: Invalid .vox file header."
ValueErrorChunkId == "ValueError: Invalid chunk ID"
ValueErrorExpectedXYZI == "ValueError: Invalid chunk ID; expected XYZI following SIZE"
ValueErrorChildren == "ValueError: Chunk has unexpected children"
ValueErrorReserved == "ValueError: Invalid reserved id"
TypeErrorNotIterator == "TypeError: object is not an iterator"
TypeErrorJoin == "TypeError: sequence item 0: expected a bytes-like object, int found"
TypeErrorConcat == "TypeError: can't concat to bytes"
TypeErrorNoBytes == "TypeError: cannot convert object to bytes"
RuntimeErrorStop == "RuntimeError: generator raised StopIteration"
AttributeErrorCursor == "AttributeError: object has no attribute 'read_bytes'"
OverflowErrorByte == "OverflowError: int too big to convert"
UnicodeDecodeError == "UnicodeDecodeError"
OutOfRangeError == "IndexError: read past the end of the buffer"

\* the first eight bytes of a file start with b"VOX "
VoxHeader == <<86, 79, 88, 32>>

\* Op(v), with v evaluated once before Op is applied (a statement whose
\* result the following statements use)
With(v, Op(_)) == CHOOSE r \in {Op(x) : x \in {v}} : TRUE

\* int.from_bytes(b, "little", signed=True) of four bytes
Int32_from_bytes(b) ==
    b[1] + b[2] * 256 + b[3] * 65536
        + (IF b[4] >= 128 THEN b[4] - 256 ELSE b[4]) * 16777216

\* Int32.write: int32.to_bytes(4, "little", signed=True)
Int32_write(n) ==
    <<n % 256, (n \div 256) % 256, (n \div 65536) % 256, (n \div 16777216) % 256>>

\* String.write, on text whose characters are ASCII (one byte each)
String_write(string) == Int32_write(Len(string)) \o string

\* b"".join(parts)
RECURSIVE Join(_)
Join(parts) ==
    With(parts, LAMBDA p : IF p = <<>> THEN <<>> ELSE p[1] \o Join(Tail(p)))

\* Dict.write; a dict is the sequence of its <<key, value>> items
Dict_write(dict) ==
    Int32_write(Len(dict))
        \o Join([i \in 1..Len(dict) |->
                    String_write(dict[i][1]) \o String_write(dict[i][2])])

-----------------------------------------------------------------------------
(* Python objects handed to the read functions *)

\* iter(data) of a bytes object: the items it yields are ints
BytesIterator(data) == [py |-> "iterator", items |-> data, yields |-> "int"]

PyInt(n) == [py |-> "int", v |-> n]
PyStr(string) == [py |-> "str", v |-> string]
PyDict(dict) == [py |-> "dict", v |-> dict]

\* Bytes.read: b"".join(next(byte_iter) for _ in range(n)).  join first runs
\* the generator to its end (n calls of next), then joins the items.
Bytes_read(byte_iter, n) ==
    With(byte_iter, LAMBDA it :
        IF n <= 0
        THEN [err |-> NoError, value |-> <<>>, iter |-> it]
        ELSE IF it.py # "iterator"
        THEN [err |-> TypeErrorNotIterator, value |-> <<>>, iter |-> it]
        ELSE IF Len(it.items) < n
        THEN [err |-> RuntimeErrorStop, value |-> <<>>,
              iter |-> [it EXCEPT !.items = <<>>]]
        ELSE IF it.yields = "int"
        THEN [err |-> TypeErrorJoin, value |-> <<>>,
              iter |-> [it EXCEPT !.items = SubSeq(@, n + 1, Len(@))]]
        ELSE [err |-> NoError, value |-> SubSeq(it.items, 1, n),
              iter |-> [it EXCEPT !.items = SubSeq(@, n + 1, Len(@))]])

\* Int32.read
Int32_read(byte_iter) ==
    With(Bytes_read(byte_iter, 4), LAMBDA b :
        IF b.err # NoError THEN [b EXCEPT !.value = 0]
        ELSE [b EXCEPT !.value = Int32_from_bytes(b.value)])

\* bytes.decode("utf-8"), for ASCII bytes and the byte 255 (never valid UTF-8)
Utf8Decodes(b) == \A i \in 1..Len(b) : b[i] < 128

\* String.read
String_read(byte_iter) ==
    With(Int32_read(byte_iter), LAMBDA length :
        IF length.err # NoError THEN [length EXCEPT !.value = <<>>]
        ELSE With(Bytes_read(length.iter, length.value), LAMBDA b :
            IF b.err = NoError /\ ~Utf8Decodes(b.value)
            THEN [b EXCEPT !.err = UnicodeDecodeError, !.value = <<>>]
            ELSE b))

\* dict_[key] = value: a new key goes last, a known key keeps its place
DictSet(dict, key, value) ==
    With(<<dict, key, value>>, LAMBDA a :
        IF \E k \in 1..Len(a[1]) : a[1][k][1] = a[2]
        THEN [k \in 1..Len(a[1]) |->
                 IF a[1][k][1] = a[2] THEN <<a[2], a[3]>> ELSE a[1][k]]
        ELSE Append(a[1], <<a[2], a[3]>>))

\* the loop of Dict.read
RECURSIVE Dict_read_items(_, _, _)
Dict_read_items(byte_iter, n, dict) ==
    With(<<byte_iter, n, dict>>, LAMBDA a :
        IF a[2] <= 0 THEN [err |-> NoError, value |-> a[3], iter |-> a[1]]
        ELSE With(String_read(a[1]), LAMBDA key :
            IF key.err # NoError THEN key
            ELSE With(String_read(key.iter), LAMBDA value :
                IF value.err # NoError THEN value
                ELSE Dict_read_items(value.iter, a[2] - 1,
                                     DictSet(a[3], key.value, value.value)))))

\* Dict.read
Dict_read(byte_iter) ==
    With(Int32_read(byte_iter), LAMBDA length :
        IF length.err # NoError THEN [length EXCEPT !.value = <<>>]
        ELSE Dict_read_items(length.iter, length.value, <<>>))

-----------------------------------------------------------------------------
(* The byte cursor the chunk decoders read from.  The decoders call
   read_bytes, peek_bytes, read_byte, read_int32, read_string and read_dict
   on their argument and test it for truth, none of which voxfile.py
   defines; the cursor is modelled from its contract: an immutable buffer and
   an offset, reads that fail with an out-of-range error when too few bytes
   remain, and no offset change on a failed read.

   A step of a decoder takes and returns a record [err, value, iter]: the
   exception raised so far (if any), the value of the last expression and
   the cursor.  An exception propagates: a step applied to a record that
   carries one returns it unchanged. *)

Cursor(buf) == [py |-> "cursor", buf |-> buf, pos |-> 0]

CursorAt(buf, pos) == [py |-> "cursor", buf |-> buf, pos |-> pos]

Start(byte_iter) == [err |-> NoError, value |-> None, iter |-> byte_iter]

Raise(s, e) == [err |-> e, value |-> None, iter |-> s.iter]

Return(s, v) ==
    With(s, LAMBDA r : IF r.err # NoError THEN Raise(r, r.err) ELSE [r EXCEPT !.value = v])

Remaining(cur) == Len(cur.buf) - cur.pos

\* bool(byte_iter): the cursor is true while its offset is before the end;
\* any other object without __bool__ or __len__ is true
\* an object whose truth value is always True
has_moreAlways(byte_iter) == TRUE

has_more(byte_iter) ==
    IF byte_iter.py = "cursor" THEN byte_iter.pos < Len(byte_iter.buf) ELSE TRUE

peek_bytes(s, n) ==
    With(s, LAMBDA v :
        IF v.err # NoError THEN v
        ELSE IF v.iter.py # "cursor" THEN Raise(v, AttributeErrorCursor)
        ELSE With(n, LAMBDA m :
            IF m > Remaining(v.iter) THEN Raise(v, OutOfRangeError)
            ELSE [v EXCEPT !.value = SubSeq(v.iter.buf, v.iter.pos + 1, v.iter.pos + m)]))

read_bytes(s, n) ==
    With(peek_bytes(s, n), LAMBDA p :
        IF p.err # NoError THEN p ELSE [p EXCEPT !.iter.pos = @ + Len(p.value)])

\* read_byte, and int.from_bytes of the one byte it returns
read_byte(s) ==
    With(read_bytes(s, 1), LAMBDA b :
        IF b.err # NoError THEN b ELSE [b EXCEPT !.value = b.value[1]])

read_int32(s) ==
    With(read_bytes(s, 4), LAMBDA b :
        IF b.err # NoError THEN b ELSE [b EXCEPT !.value = Int32_from_bytes(b.value)])

read_string(s) ==
    With(s, LAMBDA before :
        With(read_int32(before), LAMBDA length :
            With(read_bytes(length, length.value), LAMBDA b :
                IF b.err # NoError THEN Raise(before, b.err)
                ELSE IF ~Utf8Decodes(b.value) THEN Raise(before, UnicodeDecodeError)
                ELSE b)))

RECURSIVE read_dict_items(_, _, _)
read_dict_items(s, n, dict) ==
    With(<<s, n, dict>>, LAMBDA a :
        IF a[1].err # NoError THEN a[1]
        ELSE IF a[2] <= 0 THEN [a[1] EXCEPT !.value = a[3]]
        ELSE With(read_string(a[1]), LAMBDA key :
            With(read_string(key), LAMBDA value :
                IF value.err # NoError THEN value
                ELSE read_dict_items(value, a[2] - 1,
                                     DictSet(a[3], key.value, value.value)))))

read_dict(s) ==
    With(s, LAMBDA before :
        With(read_int32(before), LAMBDA length :
            With(read_dict_items(length, length.value, <<>>), LAMBDA d :
                IF d.err # NoError THEN Raise(before, d.err) ELSE d)))

\* n successive calls of read_byte, each turned into an int: the n bytes when
\* they are there; otherwise every remaining byte is read one by one and the
\* next call fails
read_byte_run(s, n) ==
    With(s, LAMBDA v :
        IF v.err # NoError THEN v
        ELSE With(n, LAMBDA m :
            IF m <= 0 THEN [v EXCEPT !.value = <<>>]
            ELSE IF v.iter.py # "cursor" THEN Raise(v, AttributeErrorCursor)
            ELSE IF m > Remaining(v.iter)
            THEN Raise([v EXCEPT !.iter.pos = Len(v.iter.buf)], OutOfRangeError)
            ELSE [v EXCEPT
                     !.value = SubSeq(v.iter.buf, v.iter.pos + 1, v.iter.pos + m),
                     !.iter.pos = @ + m]))

\* the tuples (a, b, c, d) made of each four successive bytes
Quads(b) ==
    With(b, LAMBDA v :
        [i \in 1..(Len(v) \div 4) |->
            <<v[4 * i - 3], v[4 * i - 2], v[4 * i - 1], v[4 * i]>>])

\* Chunk.consume_header, for the class with the given id and has_children
consume_header(id, has_children, s) ==
    With(read_bytes(s, 4), LAMBDA i :
        IF i.err # NoError THEN i
        ELSE IF i.value # id THEN Raise(i, ValueErrorChunkId)
        ELSE With(read_int32(read_int32(i)), LAMBDA child_bytes :
            IF child_bytes.err # NoError THEN child_bytes
            ELSE IF child_bytes.value # 0 /\ ~has_children
            THEN Raise(child_bytes, ValueErrorChildren)
            ELSE child_bytes))

\* if reserved_id != -1: raise ValueError (s.value holds reserved_id)
require_reserved(s) ==
    With(s, LAMBDA reserved_id :
        IF reserved_id.err = NoError /\ reserved_id.value # -1
        THEN Raise(reserved_id, ValueErrorReserved)
        ELSE reserved_id)

-----------------------------------------------------------------------------
(* The chunk decoders: the read classmethod of each chunk class.  Each name
   of a LET stands for the state after the statement that assigns it. *)

PackChunk_read(s) ==
    LET h == consume_header(PACK_ID, FALSE, s)
        num_models == read_int32(h)
    IN  Return(num_models, PackChunk(num_models.value))

SizeChunk_read(s) ==
    LET h == consume_header(SIZE_ID, FALSE, s)
        x == read_int32(h)
        y == read_int32(x)
        z == read_int32(y)
    IN  Return(z, SizeChunk(<<x.value, y.value, z.value>>))

XYZIChunk_read(s) ==
    LET h == consume_header(XYZI_ID, FALSE, s)
        num_voxels == read_int32(h)
        voxels_ == read_byte_run(num_voxels, 4 * num_voxels.value)
    IN  Return(voxels_, XYZIChunk(Quads(voxels_.value)))

\* a decoder that takes all 256 colours of the content for the palette
PaletteChunk_readAllSlots(s) ==
    LET h == consume_header(RGBA_ID, FALSE, s)
        colors == read_byte_run(h, 4 * PaletteColors + 4)
    IN  Return(colors, PaletteChunk(Quads(colors.value)))

PaletteChunk_read(s) ==
    LET h == consume_header(RGBA_ID, FALSE, s)
        colors == read_byte_run(h, 4 * PaletteColors)
        discard == read_bytes(colors, 4)
    IN  Return(discard, PaletteChunk(<<<<0, 0, 0, 0>>>> \o Quads(colors.value)))

\* for _ in range(n): frames += [byte_iter.read_dict()]
RECURSIVE read_dicts(_, _, _)
read_dicts(s, n, dicts) ==
    With(<<s, n, dicts>>, LAMBDA a :
        IF a[1].err # NoError THEN a[1]
        ELSE IF a[2] <= 0 THEN [a[1] EXCEPT !.value = a[3]]
        ELSE With(read_dict(a[1]), LAMBDA d :
            read_dicts(d, a[2] - 1, Append(a[3], d.value))))

TransformChunk_read(s) ==
    LET h == consume_header(NTRN_ID, FALSE, s)
        node_id == read_int32(h)
        attributes == read_dict(node_id)
        child_node_id == read_int32(attributes)
        reserved_id == read_int32(child_node_id)
        checked == require_reserved(reserved_id)
        layer_id == read_int32(checked)
        num_frames == read_int32(layer_id)
        frames == read_dicts(num_frames, num_frames.value, <<>>)
    IN  Return(frames, TransformChunk(node_id.value, attributes.value,
                                      child_node_id.value, layer_id.value,
                                      frames.value))

\* for _ in range(n): child_node_ids += [byte_iter.read_int32()]
RECURSIVE read_int32s(_, _, _)
read_int32s(s, n, ints) ==
    With(<<s, n, ints>>, LAMBDA a :
        IF a[1].err # NoError THEN a[1]
        ELSE IF a[2] <= 0 THEN [a[1] EXCEPT !.value = a[3]]
        ELSE With(read_int32(a[1]), LAMBDA i :
            read_int32s(i, a[2] - 1, Append(a[3], i.value))))

GroupChunk_read(s) ==
    LET h == consume_header(NGRP_ID, FALSE, s)
        node_id == read_int32(h)
        attributes == read_dict(node_id)
        num_children == read_int32(attributes)
        child_node_ids == read_int32s(num_children, num_children.value, <<>>)
    IN  Return(child_node_ids, GroupChunk(node_id.value, attributes.value,
                                          child_node_ids.value))

\* for _ in range(n): models += [(read_int32(), read_dict())]
RECURSIVE read_shape_models(_, _, _)
read_shape_models(s, n, models) ==
    With(<<s, n, models>>, LAMBDA a :
        IF a[1].err # NoError THEN a[1]
        ELSE IF a[2] <= 0 THEN [a[1] EXCEPT !.value = a[3]]
        ELSE With(read_int32(a[1]), LAMBDA model_id :
            With(read_dict(model_id), LAMBDA model_attributes :
                read_shape_models(model_attributes, a[2] - 1,
                    Append(a[3], <<model_id.value, model_attributes.value>>)))))

ShapeChunk_read(s) ==
    LET h == consume_header(NSHP_ID, FALSE, s)
        node_id == read_int32(h)
        attributes == read_dict(node_id)
        num_models == read_int32(attributes)
        models == read_shape_models(num_models, num_models.value, <<>>)
    IN  Return(models, ShapeChunk(node_id.value, attributes.value, models.value))

MaterialChunk_read(s) ==
    LET h == consume_header(MATL_ID, FALSE, s)
        material_id == read_int32(h)
        properties == read_dict(material_id)
    IN  Return(properties, MaterialChunk(material_id.value, properties.value))

LayerChunk_read(s) ==
    LET h == consume_header(LAYR_ID, FALSE, s)
        layer_id == read_int32(h)
        attribute == read_dict(layer_id)
        reserved_id == read_int32(attribute)
        checked == require_reserved(reserved_id)
    IN  Return(checked, LayerChunk(layer_id.value, attribute.value))

RenderObjectChunk_read(s) ==
    LET h == consume_header(ROBJ_ID, FALSE, s)
        attributes == read_dict(h)
    IN  Return(attributes, RenderObjectChunk(attributes.value))

RenderCameraChunk_read(s) ==
    LET h == consume_header(RCAM_ID, FALSE, s)
        camera_id == read_int32(h)
        attribute == read_dict(camera_id)
    IN  Return(attribute, RenderCameraChunk(camera_id.value, attribute.value))

\* for _ in range(n): color_names.append(byte_iter.read_string())
RECURSIVE read_strings(_, _, _)
read_strings(s, n, strings) ==
    With(<<s, n, strings>>, LAMBDA a :
        IF a[1].err # NoError THEN a[1]
        ELSE IF a[2] <= 0 THEN [a[1] EXCEPT !.value = a[3]]
        ELSE With(read_string(a[1]), LAMBDA t :
            read_strings(t, a[2] - 1, Append(a[3], t.value))))

PaletteNoteChunk_read(s) ==
    LET h == consume_header(NOTE_ID, FALSE, s)
        num_color_names == read_int32(h)
        color_names == read_strings(num_color_names, num_color_names.value, <<>>)
    IN  Return(color_names, PaletteNoteChunk(color_names.value))

IndexMapChunk_read(s) ==
    LET h == consume_header(IMAP_ID, FALSE, s)
        palette_indices == read_byte_run(h, IndexMapSize)
    IN  Return(palette_indices, IndexMapChunk(palette_indices.value))

-----------------------------------------------------------------------------
(* MainChunk.read *)

\* the locals of MainChunk.read after their initialisation
EmptyMain == MainChunk(None, <<>>, None, <<>>, <<>>, <<>>, <<>>, <<>>, None, None)

\* a branch of the loop that assigns the decoded chunk to the local
Assign(main, s, member) ==
    With(s, LAMBDA v :
        IF v.err # NoError THEN v ELSE [v EXCEPT !.value = [main EXCEPT ![member] = <<v.value>>]])

\* a branch of the loop that appends the decoded chunk to the local
AppendTo(main, s, member) ==
    With(s, LAMBDA v :
        IF v.err # NoError THEN v
        ELSE [v EXCEPT !.value = [main EXCEPT ![member] = Append(@, v.value)]])

\* the SIZE branch without its check of the following id: a SIZE chunk alone
\* adds a pair with no voxels
ReadModelSizeOnly(main, s) ==
    With(SizeChunk_read(s), LAMBDA size_chunk :
        With(peek_bytes(size_chunk, 4), LAMBDA id :
            With(IF id.err = NoError /\ id.value = XYZI_ID
                 THEN XYZIChunk_read(size_chunk)
                 ELSE Return(size_chunk, XYZIChunk(<<>>)), LAMBDA xyzi_chunk :
                Return(xyzi_chunk,
                       [main EXCEPT !.models =
                           Append(@, <<size_chunk.value, xyzi_chunk.value>>)]))))

\* the SIZE branch of the loop
ReadModel(main, s) ==
    With(SizeChunk_read(s), LAMBDA size_chunk :
        With(peek_bytes(size_chunk, 4), LAMBDA id :
            With(XYZIChunk_read(IF id.err = NoError /\ id.value # XYZI_ID
                                THEN Raise(id, ValueErrorExpectedXYZI)
                                ELSE id), LAMBDA xyzi_chunk :
                Return(xyzi_chunk,
                       [main EXCEPT !.models =
                           Append(@, <<size_chunk.value, xyzi_chunk.value>>)]))))

\* an id that is none of the above is passed over: the chunk is skipped by
\* its content size and the loop goes on
UnknownChunkSkipped(main, id) ==
    With(read_int32(read_bytes(id, 4)), LAMBDA content_bytes :
        Return(read_bytes(read_int32(content_bytes), content_bytes.value), main))

\* the else branch of the loop: raise ValueError(f"Invalid chunk ID: {id!r}")
UnknownChunk(main, id) == Raise(id, ValueErrorChunkId)

\* one iteration of the while loop, from the locals in main and the cursor
\* in s to the locals after it (or the exception it raises)
MainLoopBody(main, s) ==
    With(peek_bytes(s, 4), LAMBDA id :
    IF id.err # NoError THEN id
    ELSE IF id.value = PACK_ID THEN Assign(main, PackChunk_read(s), "pack")
    ELSE IF id.value = SIZE_ID THEN ReadModel(main, s)
    ELSE IF id.value = RGBA_ID THEN Assign(main, PaletteChunk_read(s), "palette")
    ELSE IF id.value = NTRN_ID THEN AppendTo(main, TransformChunk_read(s), "scene_graph")
    ELSE IF id.value = NGRP_ID THEN AppendTo(main, GroupChunk_read(s), "scene_graph")
    ELSE IF id.value = NSHP_ID THEN AppendTo(main, ShapeChunk_read(s), "scene_graph")
    ELSE IF id.value = MATL_ID THEN AppendTo(main, MaterialChunk_read(s), "materials")
    ELSE IF id.value = LAYR_ID THEN AppendTo(main, LayerChunk_read(s), "layers")
    ELSE IF id.value = ROBJ_ID THEN AppendTo(main, RenderObjectChunk_read(s), "render_objects")
    ELSE IF id.value = RCAM_ID THEN AppendTo(main, RenderCameraChunk_read(s), "render_cameras")
    ELSE IF id.value = NOTE_ID THEN Assign(main, PaletteNoteChunk_read(s), "palette_note")
    ELSE IF id.value = IMAP_ID THEN Assign(main, IndexMapChunk_read(s), "index_map")
    ELSE UnknownChunk(main, id))

\* the while loop: s.value holds the locals
RECURSIVE MainLoop(_)
MainLoop(s) ==
    With(s, LAMBDA v :
        IF v.err # NoError THEN v
        ELSE IF ~has_more(v.iter) THEN v
        ELSE MainLoop(MainLoopBody(v.value, v)))

\* MainChunk.read
MainChunk_read(s) ==
    MainLoop(Return(consume_header(MAIN_ID, TRUE, s), EmptyMain))

\* VoxFile.read, of the file whose content is data
VoxFile_read(data) ==
    With(Bytes_read(BytesIterator(data), 4), LAMBDA header :
        IF header.err # NoError THEN [err |-> header.err, file |-> None]
        ELSE IF header.value # VoxHeader
        THEN [err |-> ValueErrorHeader, file |-> None]
        ELSE With(Int32_read(header.iter), LAMBDA version :
            IF version.err # NoError THEN [err |-> version.err, file |-> None]
            ELSE With(MainChunk_read(Start(version.iter)), LAMBDA main :
                IF main.err # NoError THEN [err |-> main.err, file |-> None]
                ELSE [err |-> NoError,
                      file |-> <<VoxFile(version.value, main.value)>>])))

-----------------------------------------------------------------------------
(* The encoders: to_chunk_byte_format and the __bytes__ method of each chunk
   class.  An encoder returns [err, bytes]: the exception it raises (if any)
   and the bytes it returns. *)

BytesOk(b) == [err |-> NoError, bytes |-> b]

BytesErr(e) == [err |-> e, bytes |-> <<>>]

\* content += part, for a part that is a bytes object
AddBytes(content, part) ==
    With(content, LAMBDA c :
        IF c.err # NoError THEN c
        ELSE With(part, LAMBDA p :
            IF p.err # NoError THEN BytesErr(p.err)
            ELSE BytesOk(c.bytes \o p.bytes)))

\* content += r, for the result r of Int32.read, String.read or Dict.read:
\* what these return is an int, a str or a dict, never bytes
AddRead(content, r) ==
    With(content, LAMBDA c :
        IF c.err # NoError THEN c
        ELSE With(r, LAMBDA p :
            IF p.err # NoError THEN BytesErr(p.err)
            ELSE BytesErr(TypeErrorConcat)))

RECURSIVE AddEachRead(_, _)
AddEachRead(content, reads) ==
    With(<<content, reads>>, LAMBDA a :
        IF a[2] = <<>> THEN a[1]
        ELSE AddEachRead(AddRead(a[1], a[2][1]), Tail(a[2])))

RECURSIVE AddEachBytes(_, _)
AddEachBytes(content, parts) ==
    With(<<content, parts>>, LAMBDA a :
        IF a[2] = <<>> THEN a[1]
        ELSE AddEachBytes(AddBytes(a[1], a[2][1]), Tail(a[2])))

\* for val in ...: content += val.to_bytes(1, "little")
to_bytes_each(content, vals) ==
    With(<<content, vals>>, LAMBDA a :
        IF a[1].err # NoError THEN a[1]
        ELSE IF \E i \in 1..Len(a[2]) : a[2][i] \notin 0..255
        THEN BytesErr(OverflowErrorByte)
        ELSE BytesOk(a[1].bytes \o a[2]))

\* the components of a list of 4-tuples, one after the other
Flat(quads) ==
    With(quads, LAMBDA q :
        [k \in 1..(4 * Len(q)) |-> q[((k - 1) \div 4) + 1][((k - 1) % 4) + 1]])

\* Chunk.to_chunk_byte_format, of the class with the given id
to_chunk_byte_format(id, content, child_content) ==
    With(<<content, child_content>>, LAMBDA a :
        AddEachBytes(
            AddEachRead(BytesOk(id),
                        <<Int32_read(PyInt(Len(a[1]))), Int32_read(PyInt(Len(a[2])))>>),
            <<BytesOk(a[1]), BytesOk(a[2])>>))

\* return self.to_chunk_byte_format(content, b""), after the statements that
\* computed content
ReturnChunk(id, content) ==
    With(content, LAMBDA c :
        IF c.err # NoError THEN c ELSE to_chunk_byte_format(id, c.bytes, <<>>))

\* PackChunk defines no __bytes__
PackChunk_bytes(self) == BytesErr(TypeErrorNoBytes)

SizeChunk_bytes(self) ==
    ReturnChunk(SIZE_ID,
        AddEachRead(BytesOk(<<>>),
            <<Int32_read(PyInt(self.size[1])), Int32_read(PyInt(self.size[2])),
              Int32_read(PyInt(self.size[3]))>>))

XYZIChunk_bytes(self) ==
    ReturnChunk(XYZI_ID,
        to_bytes_each(AddRead(BytesOk(<<>>), Int32_read(PyInt(Len(self.voxels)))),
                      Flat(self.voxels)))

PaletteChunk_bytes(self) ==
    ReturnChunk(RGBA_ID,
        AddBytes(to_bytes_each(BytesOk(<<>>),
                               Flat(IF self.palette = <<>> THEN <<>>
                                    ELSE Tail(self.palette))),
                 BytesOk(<<0, 0, 0, 0>>)))

TransformChunk_bytes(self) ==
    ReturnChunk(NTRN_ID,
        AddEachRead(BytesOk(<<>>),
            <<Int32_read(PyInt(self.node_id)), Dict_read(PyDict(self.attributes)),
              Int32_read(PyInt(self.child_node_id)), Int32_read(PyInt(-1)),
              Int32_read(PyInt(self.layer_id)),
              Int32_read(PyInt(Len(self.frames)))>>
            \o [i \in 1..Len(self.frames) |-> Dict_read(PyDict(self.frames[i]))]))

GroupChunk_bytes(self) ==
    ReturnChunk(NGRP_ID,
        AddEachRead(BytesOk(<<>>),
            <<Int32_read(PyInt(self.node_id)), Dict_read(PyDict(self.attributes)),
              Int32_read(PyInt(Len(self.child_node_ids)))>>
            \o [i \in 1..Len(self.child_node_ids) |->
                   Int32_read(PyInt(self.child_node_ids[i]))]))

ShapeChunk_bytes(self) ==
    ReturnChunk(NSHP_ID,
        AddEachRead(BytesOk(<<>>),
            <<Int32_read(PyInt(self.node_id)), Dict_read(PyDict(self.attributes)),
              Int32_read(PyInt(Len(self.models)))>>
            \o [k \in 1..(2 * Len(self.models)) |->
                   IF k % 2 = 1
                   THEN Int32_read(PyInt(self.models[(k + 1) \div 2][1]))
                   ELSE Dict_read(PyDict(self.models[k \div 2][2]))]))

MaterialChunk_bytes(self) ==
    ReturnChunk(MATL_ID,
        AddEachRead(BytesOk(<<>>),
            <<Int32_read(PyInt(self.material_id)),
              Dict_read(PyDict(self.properties))>>))

LayerChunk_bytes(self) ==
    ReturnChunk(LAYR_ID,
        AddEachRead(BytesOk(<<>>),
            <<Int32_read(PyInt(self.layer_id)), Dict_read(PyDict(self.attribute)),
              Int32_read(PyInt(-1))>>))

RenderObjectChunk_bytes(self) ==
    ReturnChunk(ROBJ_ID,
        AddEachRead(BytesOk(<<>>), <<Dict_read(PyDict(self.attributes))>>))

RenderCameraChunk_bytes(self) ==
    ReturnChunk(RCAM_ID,
        AddEachRead(BytesOk(<<>>),
            <<Int32_read(PyInt(self.camera_id)),
              Dict_read(PyDict(self.attribute))>>))

PaletteNoteChunk_bytes(self) ==
    ReturnChunk(NOTE_ID,
        AddEachRead(BytesOk(<<>>),
            <<Int32_read(PyInt(Len(self.color_names)))>>
            \o [i \in 1..Len(self.color_names) |->
                   String_read(PyStr(self.color_names[i]))]))

IndexMapChunk_bytes(self) ==
    ReturnChunk(IMAP_ID, to_bytes_each(BytesOk(<<>>), self.palette_indices))

\* bytes(chunk), for a chunk below the main chunk
Chunk_bytes(chunk) ==
    With(chunk, LAMBDA self :
        CASE self.id = PACK_ID -> PackChunk_bytes(self)
          [] self.id = SIZE_ID -> SizeChunk_bytes(self)
          [] self.id = XYZI_ID -> XYZIChunk_bytes(self)
          [] self.id = RGBA_ID -> PaletteChunk_bytes(self)
          [] self.id = NTRN_ID -> TransformChunk_bytes(self)
          [] self.id = NGRP_ID -> GroupChunk_bytes(self)
          [] self.id = NSHP_ID -> ShapeChunk_bytes(self)
          [] self.id = MATL_ID -> MaterialChunk_bytes(self)
          [] self.id = LAYR_ID -> LayerChunk_bytes(self)
          [] self.id = ROBJ_ID -> RenderObjectChunk_bytes(self)
          [] self.id = RCAM_ID -> RenderCameraChunk_bytes(self)
          [] self.id = NOTE_ID -> PaletteNoteChunk_bytes(self)
          [] self.id = IMAP_ID -> IndexMapChunk_bytes(self))

\* the chunks MainChunk.__bytes__ serializes, in the order it does; an
\* optional member is None or <<chunk>>
MainChildren(self) ==
    self.pack
    \o [k \in 1..(2 * Len(self.models)) |->
           self.models[(k + 1) \div 2][IF k % 2 = 1 THEN 1 ELSE 2]]
    \o self.scene_graph \o self.layers \o self.palette \o self.index_map
    \o self.materials \o self.render_objects \o self.render_cameras
    \o self.palette_note

\* MainChunk.__bytes__
MainChunk_bytes(self) ==
    With(MainChildren(self), LAMBDA children :
        With(AddEachBytes(BytesOk(<<>>),
                          [k \in 1..Len(children) |-> Chunk_bytes(children[k])]),
             LAMBDA child_content :
                IF child_content.err # NoError THEN child_content
                ELSE to_chunk_byte_format(MAIN_ID, <<>>, child_content.bytes)))

\* VoxFile.write: what the file holds when it is closed, and the exception
VoxFile_write(self) ==
    With(MainChunk_bytes(self.main), LAMBDA main :
        [err |-> main.err,
         out |-> VoxHeader \o Int32_write(self.version) \o main.bytes])

-----------------------------------------------------------------------------
(* Files and trees the operations are run on *)

\* a chunk as the decoders expect it: id, content size, child size, content
SampleChunk(id, content, child_bytes) ==
    id \o Int32_write(Len(content)) \o Int32_write(child_bytes) \o content

Text(string) == String_write(string)

\* {"_name": "a"}, {"_t": "0"}, {} as Dict.write lays them out
NameDict == <<<<<<95, 110, 97, 109, 101>>, <<97>>>>>>
FrameDict == <<<<<<95, 116>>, <<48>>>>>>

\* a palette content of 255 colours (i, 0, i, 255) and the four trailing bytes
SamplePalette ==
    [k \in 1..(4 * PaletteColors + 4) |->
        IF k > 4 * PaletteColors THEN 0
        ELSE IF k % 4 = 0 THEN 255
        ELSE IF k % 4 = 2 THEN 0
        ELSE (k + 3) \div 4]

SampleIndexMap == [k \in 1..IndexMapSize |-> (k * 7) % 256]

PackSample == SampleChunk(PACK_ID, Int32_write(1), 0)
SizeSample == SampleChunk(SIZE_ID, Int32_write(2) \o Int32_write(2) \o Int32_write(1), 0)
OtherSizeSample == SampleChunk(SIZE_ID, Int32_write(1) \o Int32_write(2) \o Int32_write(300), 0)
XyziSample == SampleChunk(XYZI_ID, Int32_write(1) \o <<0, 1, 0, 1>>, 0)
OtherXyziSample == SampleChunk(XYZI_ID, Int32_write(2) \o <<0, 0, 0, 2, 1, 1, 0, 255>>, 0)
PaletteSample == SampleChunk(RGBA_ID, SamplePalette, 0)
OtherPaletteSample == SampleChunk(RGBA_ID, [k \in 1..(4 * PaletteColors + 4) |-> (3 * k + 1) % 256], 0)
GroupSample == SampleChunk(NGRP_ID, Int32_write(1) \o Dict_write(<<>>) \o Int32_write(2) \o Int32_write(2) \o Int32_write(3), 0)
ShapeSample == SampleChunk(NSHP_ID, Int32_write(2) \o Dict_write(NameDict) \o Int32_write(1) \o Int32_write(0) \o Dict_write(<<>>), 0)
MaterialSample == SampleChunk(MATL_ID, Int32_write(1) \o Dict_write(FrameDict), 0)
LayerSample == SampleChunk(LAYR_ID, Int32_write(0) \o Dict_write(NameDict) \o Int32_write(-1), 0)
RenderObjectSample == SampleChunk(ROBJ_ID, Dict_write(NameDict), 0)
RenderCameraSample == SampleChunk(RCAM_ID, Int32_write(0) \o Dict_write(FrameDict), 0)
PaletteNoteSample == SampleChunk(NOTE_ID, Int32_write(2) \o Text(<<97>>) \o Text(<<>>), 0)
IndexMapSample == SampleChunk(IMAP_ID, SampleIndexMap, 0)

\* a Transform chunk with the given reserved id
TransformSample(reserved_id) ==
    SampleChunk(NTRN_ID,
        Int32_write(0) \o Dict_write(NameDict) \o Int32_write(1)
            \o Int32_write(reserved_id) \o Int32_write(-1) \o Int32_write(1)
            \o Dict_write(FrameDict), 0)

\* chunks the decoder has to refuse
UnknownSample == SampleChunk(<<65, 66, 67, 68>>, <<>>, 0)
SizeWithChildrenSample == SampleChunk(SIZE_ID, Int32_write(2) \o Int32_write(2) \o Int32_write(1), 12)
ShortSizeSample == SampleChunk(SIZE_ID, Int32_write(2) \o Int32_write(2), 0)

ReservedIds == {-1, 0, -2}

\* the parts a main chunk is put together from: one chunk each, or a SIZE
\* chunk with the chunk behind it
SampleParts ==
    {PackSample, SizeSample, XyziSample, SizeSample \o XyziSample,
     OtherSizeSample \o OtherXyziSample, SizeSample \o PackSample,
     PaletteSample, OtherPaletteSample, GroupSample, ShapeSample, MaterialSample, LayerSample,
     RenderObjectSample, RenderCameraSample, PaletteNoteSample, IndexMapSample,
     UnknownSample, SizeWithChildrenSample, ShortSizeSample}
        \cup {TransformSample(r) : r \in ReservedIds}

\* the sequences of at most n parts
RECURSIVE PartSeqs(_)
PartSeqs(n) ==
    IF n = 0 THEN {<<>>}
    ELSE With(PartSeqs(n - 1), LAMBDA shorter :
            shorter \cup {Append(q, c) : q \in shorter, c \in SampleParts})

\* a main chunk around the given children
MainSample(children) == SampleChunk(MAIN_ID, <<>>, Len(children)) \o children

-----------------------------------------------------------------------------
(* Reading and writing files as a state machine *)

\* bytes of a file too short to hold more than a header
MaxFileLen == 4

FileAlphabet == {86, 79, 88, 32}

\* every file of at most MaxFileLen bytes over the letters of the header
ShortFiles == UNION {[1..n -> FileAlphabet] : n \in 0..MaxFileLen}

\* files as MagicaVoxel writes them: header, version, main chunk
WellFormedFiles ==
    {VoxHeader \o Int32_write(FileVersion) \o MainSample(Join(q)) :
        q \in {<<>>,
               <<SizeSample, XyziSample>>,
               <<PackSample, SizeSample, XyziSample, OtherSizeSample,
                 OtherXyziSample, TransformSample(-1), GroupSample, ShapeSample,
                 LayerSample, PaletteSample, MaterialSample>>}}

\* the same files with one byte of the header changed
BadHeaderFiles == {[f EXCEPT ![4] = 0] : f \in WellFormedFiles}

FileInputs == ShortFiles \cup WellFormedFiles \cup BadHeaderFiles

\* the members a tree can hold
SampleModels == <<<<SizeChunk(<<2, 2, 1>>), XYZIChunk(<<<<0, 1, 0, 1>>>>)>>>>
SampleSceneGraph == <<TransformChunk(0, NameDict, 1, -1, <<FrameDict>>), GroupChunk(1, <<>>, <<2>>), ShapeChunk(2, <<>>, <<<<0, <<>>>>>>)>>

Opt(present, chunk) == IF present THEN <<chunk>> ELSE None

Many(present, chunks) == IF present THEN chunks ELSE <<>>

\* one tree for every combination of present and absent members
Trees ==
    {VoxFile(FileVersion,
        MainChunk(Opt(b[1], PackChunk(1)),
                  Many(b[2], SampleModels),
                  Opt(b[3], PaletteChunk(ColorList(<<>>))),
                  Many(b[4], SampleSceneGraph),
                  Many(b[5], <<MaterialChunk(1, FrameDict)>>),
                  Many(b[6], <<LayerChunk(0, NameDict)>>),
                  Many(b[7], <<RenderObjectChunk(NameDict)>>),
                  Many(b[8], <<RenderCameraChunk(0, FrameDict)>>),
                  Opt(b[9], PaletteNoteChunk(<<<<97>>>>)),
                  Opt(b[10], IndexMapChunk(SampleIndexMap)))) :
        b \in [1..10 -> BOOLEAN]}

\* the tree of Volume((2, 2, 1)).to_voxfile()
VolumeTree == to_voxfile(<<2, 2, 1>>, Volume_init(<<2, 2, 1>>).voxels, <<>>).file[1]

InitFile ==
    /\ \/ disk \in {<<f>> : f \in FileInputs} /\ tree = None
       \/ disk = None /\ tree \in {<<t>> : t \in Trees \cup {VolumeTree}}
    /\ io = NoFileCall
    /\ IdleVolume
    /\ IdleMain
    /\ IdleRead

\* tree = VoxFile.read(path)
ReadFile ==
    /\ disk # None
    /\ \E r \in {VoxFile_read(disk[1])} :
          /\ tree' = IF r.err = NoError THEN r.file ELSE tree
          /\ io' = [op |-> "read", err |-> r.err, out |-> None]
    /\ UNCHANGED <<disk, volumeVars, mainVars, readVars>>

\* tree.write(path)
WriteFile ==
    /\ tree # None
    /\ \E r \in {VoxFile_write(tree[1])} :
          /\ disk' = <<r.out>>
          /\ io' = [op |-> "write", err |-> r.err, out |-> <<r.out>>]
    /\ UNCHANGED <<tree, volumeVars, mainVars, readVars>>

\* test_read_write: VoxFile.read(path).write(other_path), out is what
\* other_path holds afterwards
ReadWrite ==
    /\ disk # None
    /\ \E r \in {VoxFile_read(disk[1])} :
          io' = IF r.err # NoError
                THEN [op |-> "read_write", err |-> r.err, out |-> None]
                ELSE With(VoxFile_write(r.file[1]), LAMBDA w :
                        [op |-> "read_write", err |-> w.err, out |-> <<w.out>>])
    /\ UNCHANGED <<disk, tree, volumeVars, mainVars, readVars>>

NextFile == ReadFile \/ WriteFile \/ ReadWrite

SpecFile == InitFile /\ [][NextFile]_vars

-----------------------------------------------------------------------------
(* Properties of reading and writing *)

\* C1: a well-formed file that is read and written back comes out unchanged,
\* byte for byte (what test_read_write asserts of the sample files)
RoundTripIdentity ==
    (io.op = "read_write" /\ disk[1] \in WellFormedFiles)
        => (io.err = NoError /\ io.out = disk)

\* C2: writing a well-formed tree, whichever members it holds, does not end
\* in an encoding error
WriteNeverFails == io.op = "write" => io.err = NoError

HasVoxHeader(data) == Len(data) >= 4 /\ SubSeq(data, 1, 4) = VoxHeader

\* C8: reading a file whose first four bytes are not "VOX " (or that has
\* fewer than four bytes) ends in the invalid-header error and in no other,
\* and returns no VoxFile
HeaderContract ==
    (io.op \in {"read", "read_write"} /\ ~HasVoxHeader(disk[1]))
        => (io.err = ValueErrorHeader /\ tree = None)

-----------------------------------------------------------------------------
(* MainChunk.read as a state machine: one step for the header, one for each
   iteration of the loop, one for the return *)

\* parts in the main chunk that is decoded
MaxParts == 2

\* buffers that do not start with a main chunk
BadMainInputs == {<<>>, SizeSample \o XyziSample, SubSeq(MainSample(<<>>), 1, 8)}

MainInputs == {MainSample(Join(q)) : q \in PartSeqs(MaxParts)} \cup BadMainInputs

InitMain ==
    /\ cursor \in {Cursor(buf) : buf \in MainInputs}
    /\ locals = None
    /\ pc = "header"
    /\ raised = NoError
    /\ trace = <<>>
    /\ encoded = None
    /\ IdleVolume
    /\ IdleFile
    /\ IdleRead

\* cls.consume_header(byte_iter) and the initialisation of the locals
MainHeader ==
    /\ pc = "header"
    /\ \E h \in {consume_header(MAIN_ID, TRUE, Start(cursor))} :
          /\ cursor' = h.iter
          /\ raised' = h.err
          /\ pc' = IF h.err # NoError THEN "failed" ELSE "loop"
          /\ locals' = IF h.err # NoError THEN locals ELSE EmptyMain
    /\ UNCHANGED <<trace, encoded, volumeVars, fileVars, readVars>>

\* one iteration of the while loop
MainLoopStep ==
    /\ pc = "loop"
    /\ has_more(cursor)
    /\ \E r \in {MainLoopBody(locals, Start(cursor))} :
          /\ cursor' = r.iter
          /\ raised' = r.err
          /\ pc' = IF r.err # NoError THEN "failed" ELSE "loop"
          /\ locals' = IF r.err # NoError THEN locals ELSE r.value
          /\ trace' = IF r.err # NoError THEN trace
                      ELSE Append(trace, [start |-> cursor.pos, end |-> r.iter.pos])
    /\ UNCHANGED <<encoded, volumeVars, fileVars, readVars>>

\* the loop ends, MainChunk.read returns the MainChunk made of the locals
MainReturn ==
    /\ pc = "loop"
    /\ ~has_more(cursor)
    /\ pc' = "done"
    /\ UNCHANGED <<cursor, locals, raised, trace, encoded, volumeVars, fileVars, readVars>>

\* bytes(chunk), for a chunk of the MainChunk that was returned
SerializeChunk ==
    /\ pc = "done"
    /\ \E chunk \in {MainChildren(locals)[k] : k \in 1..Len(MainChildren(locals))} :
          \E r \in {Chunk_bytes(chunk)} :
             encoded' = <<[chunk |-> chunk, err |-> r.err, bytes |-> r.bytes]>>
    /\ UNCHANGED <<cursor, locals, pc, raised, trace, volumeVars, fileVars, readVars>>

NextMain == MainHeader \/ MainLoopStep \/ MainReturn \/ SerializeChunk

SpecMain == InitMain /\ [][NextMain]_vars

-----------------------------------------------------------------------------
(* Properties of MainChunk.read *)

\* the four bytes at an offset of the buffer (fewer at its end)
TagAt(pos) ==
    SubSeq(cursor.buf, pos + 1,
           IF pos + 4 <= Len(cursor.buf) THEN pos + 4 ELSE Len(cursor.buf))

\* the SIZE chunk decoded from the bytes at an offset of the buffer
SizeAt(pos) == SizeChunk_read(Start(CursorAt(cursor.buf, pos)))

\* the loop is at a SIZE chunk that decodes and whose next four bytes are not
\* the XYZI id
SizeNotFollowedByXyzi ==
    /\ pc = "loop"
    /\ TagAt(cursor.pos) = SIZE_ID
    /\ SizeAt(cursor.pos).err = NoError
    /\ Len(TagAt(SizeAt(cursor.pos).iter.pos)) = 4
    /\ TagAt(SizeAt(cursor.pos).iter.pos) # XYZI_ID

\* the iterations of the loop so far that started at a SIZE chunk
SizeSteps == SelectSeq(trace, LAMBDA e : TagAt(e.start) = SIZE_ID)

\* the iterations of the loop started where the one before ended, the first
\* one behind the header of the main chunk
TraceInFileOrder ==
    \A k \in 1..Len(trace) :
        /\ trace[k].start = IF k = 1 THEN 12 ELSE trace[k - 1].end
        /\ trace[k].start < trace[k].end

\* the i-th pair of models is the SIZE chunk of the i-th such iteration and
\* the XYZI chunk whose id follows that SIZE chunk's last byte
ModelsFollowFile ==
    locals # None =>
        /\ Len(locals.models) = Len(SizeSteps)
        /\ \A i \in 1..Len(SizeSteps) :
              \E sz \in {SizeAt(SizeSteps[i].start)} :
                 \E xy \in {XYZIChunk_read(sz)} :
                    /\ TagAt(sz.iter.pos) = XYZI_ID
                    /\ xy.err = NoError
                    /\ xy.iter.pos = SizeSteps[i].end
                    /\ locals.models[i] = <<sz.value, xy.value>>

\* C9: a SIZE chunk whose next four bytes are not the XYZI id makes
\* MainChunk.read raise the ValueError that names the expected XYZI, adds no
\* pair to models and returns nothing; every pair of models is a SIZE chunk
\* with the XYZI chunk right behind it, in the order of the file
SizeXyziCoupling ==
    /\ [][SizeNotFollowedByXyzi =>
            /\ pc' = "failed"
            /\ raised' = ValueErrorExpectedXYZI
            /\ locals' = locals]_vars
    /\ [](TraceInFileOrder /\ ModelsFollowFile)

\* a pair was decoded, then a SIZE chunk with a PACK chunk behind it refused
SizeXyziCouplingWitness ==
    /\ pc = "failed"
    /\ raised = ValueErrorExpectedXYZI
    /\ Len(locals.models) = 1
    /\ TagAt(cursor.pos) = PACK_ID

\* the reserved id of the Transform chunk that starts at an offset of a buffer
ReservedField(buf, pos) ==
    read_int32(read_int32(read_dict(read_int32(
        Start(CursorAt(buf, pos + 12)))))).value

-----------------------------------------------------------------------------
(* The closed registry of MainChunk.read *)

\* the ids the loop of MainChunk.read has a branch for
Registry ==
    {PACK_ID, SIZE_ID, RGBA_ID, NTRN_ID, NGRP_ID, NSHP_ID, MATL_ID, LAYR_ID,
     ROBJ_ID, RCAM_ID, NOTE_ID, IMAP_ID}

\* the loop is about to look at four bytes that are none of these ids
AtUnknownTag ==
    /\ pc = "loop"
    /\ Len(TagAt(cursor.pos)) = 4
    /\ TagAt(cursor.pos) \notin Registry

\* C11: when the four bytes the loop looks at are none of PACK, SIZE, RGBA,
\* nTRN, nGRP, nSHP, MATL, LAYR, rOBJ, rCAM, NOTE, IMAP, MainChunk.read
\* raises the invalid-chunk-id ValueError on the spot: the cursor stays where
\* it is, no local changes, and after the exception nothing is ever returned
UnknownTagRejected ==
    /\ [][AtUnknownTag =>
            /\ pc' = "failed"
            /\ raised' = ValueErrorChunkId
            /\ cursor' = cursor
            /\ locals' = locals
            /\ trace' = trace]_vars
    /\ [][pc = "failed" => pc' = "failed" /\ encoded' = None]_vars

\* a chunk was decoded, then a chunk with the id ABCD refused
UnknownTagRejectedWitness ==
    /\ pc = "failed"
    /\ raised = ValueErrorChunkId
    /\ TagAt(cursor.pos) = <<65, 66, 67, 68>>
    /\ Len(trace) = 1

-----------------------------------------------------------------------------
(* The palette MainChunk.read holds *)

\* the iterations of the loop so far that started at an RGBA chunk
PaletteSteps == SelectSeq(trace, LAMBDA e : TagAt(e.start) = RGBA_ID)

\* the four content bytes of the i-th colour of the chunk at an offset
ContentQuad(pos, i) == SubSeq(cursor.buf, pos + 12 + 4 * i - 3, pos + 12 + 4 * i)

\* C12: the palette MainChunk.read holds has 256 slots, slot 0 is (0,0,0,0)
\* whatever the content of the RGBA chunk says, slots 1..255 are the first
\* 255 quadruples of the content in order, and the decoder has consumed the
\* header, those quadruples and exactly four bytes more
PaletteSlotZero ==
    (locals # None /\ locals.palette # None) =>
        /\ PaletteSteps # <<>>
        /\ \E st \in {PaletteSteps[Len(PaletteSteps)]} :
              \E p \in {locals.palette[1].palette} :
                 /\ Len(p) = PaletteSlots
                 /\ p[1] = <<0, 0, 0, 0>>
                 /\ \A i \in 1..PaletteColors : p[i + 1] = ContentQuad(st.start, i)
                 /\ st.end = st.start + 12 + 4 * PaletteColors + 4

\* a palette decoded from a chunk whose first and last four content bytes
\* are not zero, after another RGBA chunk
PaletteSlotZeroWitness ==
    /\ locals # None
    /\ locals.palette # None
    /\ Len(PaletteSteps) = 2
    /\ \E st \in {PaletteSteps[2]} :
          /\ ContentQuad(st.start, 1) # <<0, 0, 0, 0>>
          /\ ContentQuad(st.start, PaletteColors + 1) # <<0, 0, 0, 0>>
          /\ locals.palette[1].palette[2] = ContentQuad(st.start, 1)
          /\ ContentQuad(st.start, 1) # ContentQuad(PaletteSteps[1].start, 1)

-----------------------------------------------------------------------------
(* The counts of the colour-usage map *)

\* the number of voxels that hold a colour
Holders(vox, rgba) == Cardinality({c \in 1..Len(vox) : vox[c] = rgba})

\* C13: in every state of a Volume that set calls (accepted or rejected) have
\* acted on, a colour is a key of the colour-usage map exactly when a voxel
\* holds it, each key occurs once, its count is the number of voxels holding
\* it (so no count is 0), and the map has at most 256 entries
ReferenceCounts ==
    /\ Len(color_count_map) <= PaletteCapacity
    /\ \A k \in 1..Len(color_count_map) :
          /\ color_count_map[k].count = Holders(voxels, color_count_map[k].color)
          /\ color_count_map[k].count > 0
          /\ KeyIndex(color_count_map, color_count_map[k].color) = k
    /\ \A c \in 1..Len(voxels) :
          voxels[c] # None => KeyIndex(color_count_map, voxels[c]) > 0

\* the only voxel holding a colour was set to empty in a Volume at the
\* ceiling, and the colour left the map
ReferenceCountsWitness ==
    /\ last.op = "set"
    /\ last.err = NoError
    /\ last.color.rgba = None
    /\ size = BigSize
    /\ voxels[1] = None
    /\ Len(color_count_map) = PaletteCapacity - 1

-----------------------------------------------------------------------------
(* What get returns after set *)

\* the in-bounds coordinates of a Volume
Cells(sz) ==
    {<<x, y, z>> : x \in 0..(sz[1] - 1), y \in 0..(sz[2] - 1), z \in 0..(sz[3] - 1)}

\* a Volume fresh from the constructor
NewVolume == steps = 0 /\ voxels = Volume_init(size).voxels

\* C14: after an accepted set(c, v), which only happens for an in-bounds c,
\* get(c) returns v and get(c') returns what it returned before for every
\* other in-bounds c'; and get returns None for every in-bounds coordinate of
\* a new Volume
SetGetFrame ==
    /\ [][(last'.op = "set" /\ last'.err = NoError) =>
            /\ Inside(size, last'.index)
            /\ Volume_get(size, voxels', last'.index)
                  = [err |-> NoError, value |-> last'.color.rgba]
            /\ \A other \in Cells(size) \ {last'.index} :
                  Volume_get(size, voxels', other) = Volume_get(size, voxels, other)]_vars
    /\ [](NewVolume =>
            \A c \in Cells(size) :
                Volume_get(size, voxels, c) = [err |-> NoError, value |-> None])

\* a colour was stored in a Volume with y and z extent 2 while two other
\* cells hold another colour and the fourth cell is empty
SetGetFrameWitness ==
    /\ last.op = "set"
    /\ last.err = NoError
    /\ last.color.rgba # None
    /\ size = <<1, 2, 2>>
    /\ Volume_get(size, voxels, last.index).value = last.color.rgba
    /\ \E a, b, c \in Cells(size) \ {last.index} :
          /\ a # b
          /\ Volume_get(size, voxels, a).value \notin {None, last.color.rgba}
          /\ Volume_get(size, voxels, b).value = Volume_get(size, voxels, a).value
          /\ Volume_get(size, voxels, c).value = None

-----------------------------------------------------------------------------
(* Bytes.read, Int32.read, String.read and Dict.read as a state machine: an
   iterator is handed to one reader after another *)

\* the largest n passed to Bytes.read
MaxRead == 4

\* an iterator that yields the bytes of data as bytes objects of length one,
\* as the annotation Iterator[bytes] of the readers asks for
ByteStringIterator(data) == [py |-> "iterator", items |-> data, yields |-> "bytes"]

\* a dict, a string, a negative int32 and one more byte
ReadSample == Dict_write(NameDict) \o String_write(<<97, 98>>) \o Int32_write(-2) \o <<7>>

\* the sample cut off after any number of bytes
ReadInputs == {SubSeq(ReadSample, 1, k) : k \in 0..Len(ReadSample)}

InitRead ==
    /\ reader \in {ByteStringIterator(data) : data \in ReadInputs}
                     \cup {BytesIterator(data) : data \in ReadInputs}
    /\ got = NoRead
    /\ IdleVolume
    /\ IdleFile
    /\ IdleMain

\* the call made and how it ended; before is what the iterator still held
Called(op, n, r) == [op |-> op, n |-> n, err |-> r.err, before |-> reader.items]

\* Bytes.read(byte_iter, n)
ReadBytes ==
    /\ \E n \in 0..MaxRead :
          \E r \in {Bytes_read(reader, n)} :
             /\ reader' = r.iter
             /\ got' = Called("Bytes.read", n, r)
    /\ UNCHANGED <<volumeVars, fileVars, mainVars>>

\* Int32.read(byte_iter)
ReadInt32 ==
    /\ \E r \in {Int32_read(reader)} :
          /\ reader' = r.iter
          /\ got' = Called("Int32.read", 4, r)
    /\ UNCHANGED <<volumeVars, fileVars, mainVars>>

\* String.read(byte_iter)
ReadString ==
    /\ \E r \in {String_read(reader)} :
          /\ reader' = r.iter
          /\ got' = Called("String.read", 4, r)
    /\ UNCHANGED <<volumeVars, fileVars, mainVars>>

\* Dict.read(byte_iter)
ReadDict ==
    /\ \E r \in {Dict_read(reader)} :
          /\ reader' = r.iter
          /\ got' = Called("Dict.read", 4, r)
    /\ UNCHANGED <<volumeVars, fileVars, mainVars>>

NextRead == ReadBytes \/ ReadInt32 \/ ReadString \/ ReadDict

SpecRead == InitRead /\ [][NextRead]_vars

\* C15 (as claimed): after a read of n bytes, an int32, a string or a dict
\* that failed because the iterator ran out before the read was complete, the
\* iterator holds what it held before the call
ReadsAllOrNothing ==
    got.err = RuntimeErrorStop => reader.items = got.before

-----------------------------------------------------------------------------
(* MainChunk.read runs to its return statement *)

\* a call of MainChunk.read that has started keeps executing
SpecMainFair == SpecMain /\ WF_vars(MainHeader) /\ WF_vars(MainLoopStep) /\ WF_vars(MainReturn)

\* the children that decode: every chunk kind, a SIZE chunk always with its
\* XYZI chunk, a Transform chunk with reserved id -1
WellFormedParts ==
    {PackSample, SizeSample \o XyziSample, OtherSizeSample \o OtherXyziSample,
     PaletteSample, OtherPaletteSample, GroupSample, ShapeSample, MaterialSample,
     LayerSample, RenderObjectSample, RenderCameraSample, PaletteNoteSample,
     IndexMapSample, TransformSample(-1)}

\* the main chunks made of at most MaxParts such children
WellFormedMains ==
    {MainSample(<<>>)}
        \cup {MainSample(a) : a \in WellFormedParts}
        \cup {MainSample(a \o b) : a \in WellFormedParts, b \in WellFormedParts}

WellFormedInput == cursor # None /\ cursor.buf \in WellFormedMains

\* the iterations of the loop so far that started at one of the ids
StepsAt(ids) == SelectSeq(trace, LAMBDA e : TagAt(e.start) \in ids)

\* each local holds the chunks of its category decoded so far
HoldsEveryChunk ==
    locals # None =>
        /\ (locals.pack # None) = (StepsAt({PACK_ID}) # <<>>)
        /\ Len(locals.models) = Len(StepsAt({SIZE_ID}))
        /\ (locals.palette # None) = (StepsAt({RGBA_ID}) # <<>>)
        /\ Len(locals.scene_graph) = Len(StepsAt({NTRN_ID, NGRP_ID, NSHP_ID}))
        /\ Len(locals.materials) = Len(StepsAt({MATL_ID}))
        /\ Len(locals.layers) = Len(StepsAt({LAYR_ID}))
        /\ Len(locals.render_objects) = Len(StepsAt({ROBJ_ID}))
        /\ Len(locals.render_cameras) = Len(StepsAt({RCAM_ID}))
        /\ (locals.palette_note # None) = (StepsAt({NOTE_ID}) # <<>>)
        /\ (locals.index_map # None) = (StepsAt({IMAP_ID}) # <<>>)

\* the iterations so far cover the buffer behind the header of the main chunk
DecodedToTheEnd ==
    /\ cursor.pos = Len(cursor.buf)
    /\ TraceInFileOrder
    /\ IF trace = <<>> THEN Len(cursor.buf) = 12
       ELSE trace[Len(trace)].end = Len(cursor.buf)

-----------------------------------------------------------------------------
(* to_voxfile on every Volume that set can build *)

\* C17 (as claimed): to_voxfile returns a File for every Volume built by
\* accepted set calls, up to the 256 colours use_color admits: it raises
\* nothing, leaves the voxels and the colour-usage map as they were, and the
\* File has a palette of 256 slots and colour indices in 1..255 only
ConversionTotal ==
    [][(last'.op = "to_voxfile" /\ steps' = steps + 1) =>
          /\ last'.err = NoError
          /\ voxels' = voxels
          /\ color_count_map' = color_count_map
          /\ Len(last'.file[1].main.palette[1].palette) = PaletteSlots
          /\ \A j \in 1..Len(last'.file[1].main.models[1][2].voxels) :
                last'.file[1].main.models[1][2].voxels[j][4] \in 1..PaletteColors]_vars

====
